---- MODULE Spec2Model ----
(***************************************************************************)
(* Model of the PDRE capacity engine of pdre_calculation:                  *)
(*   - the formula library and calculate_for_object                        *)
(*     (calculation_methods.py, PDREMethodology),                          *)
(*   - calculate_for_protected_area, which reads the stored objects of an  *)
(*     area, computes each one, saves it and saves the area total,         *)
(*   - the recalculate view of one object (views.py).                      *)
(*                                                                         *)
(* Numbers are exact rationals <<n, d>> with d > 0, kept in lowest terms.  *)
(* Python's None is <<0, 0>> and float("inf") is <<1, 0>>.                 *)
(***************************************************************************)
EXTENDS Integers, Sequences, FiniteSets, TLC

VARIABLES
    inputs,          \* SpecObj: the CalculationInputs handed to calculate_for_object
    results,         \* SpecObj: what calculate_for_object returned
    objects,         \* TourismObject table: id -> row
    areas,           \* ProtectedArea table: id -> row
    pc,              \* position of the calculate_for_protected_area call
    req,             \* its protected_area_id argument
    order,           \* the evaluated queryset: ids of the rows being iterated
    idx,             \* number of rows of the queryset already processed
    total_pdre,      \* the running total of the loop
    object_results,  \* the per-object records appended so far
    outcome,         \* how the call ended: "none", "ok", "ValueError", "TypeError"
    last_inputs,     \* the CalculationInputs most recently built by a caller
    law,             \* SpecLaw: arguments and values of calculate_potential_capacity
    runs,            \* SpecConc: the locals of each concurrent area calculation
    db0,             \* the tables as they were before the runs (or the task) began
    segloop,         \* SpecLive: the position of a route formula in its segment loop
    edits,           \* SpecEdit: the object updates made so far, in order
    view,            \* SpecEdit: the locals of a recalculate request
    prev,            \* SpecEdit: report and tables of the last returned area run
    task,            \* SpecTask: the locals of a calculate_pdre_for_area run
    calc_results     \* SpecTask: the CalculationResult table

vars == <<inputs, results, objects, areas, pc, req, order, idx, total_pdre,
          object_results, outcome, last_inputs, law, runs, db0, segloop, edits,
          view, prev, task, calc_results>>

objVars == <<inputs, results>>
areaVars == <<objects, areas, pc, req, order, idx, total_pdre,
              object_results, outcome, last_inputs>>
extVars == <<segloop, edits, view, prev, task, calc_results>>
auxVars == <<law, runs, db0, extVars>>

-----------------------------------------------------------------------------
(* Exact rational arithmetic standing for Python's float arithmetic.       *)

Abs(x) == IF x < 0 THEN -x ELSE x

RECURSIVE GCD(_, _)
\* The operators of this section bind their arguments to values (x \in {a})
\* before using them, so that an argument written as a long expression is
\* evaluated once however often the body mentions it.
GCD(a, b) ==
    IF b = 0 THEN a
    ELSE CHOOSE g \in {GCD(y, r) : y \in {b}, r \in {a % b}} : TRUE

Norm(n, d) ==
    CHOOSE q \in {<<(s * x) \div g, (s * y) \div g>> :
                      x \in {n}, y \in {d},
                      s \in {IF d < 0 THEN -1 ELSE 1},
                      g \in {GCD(Abs(n), Abs(d))}} : TRUE

R(n) == <<n, 1>>
Q(n, d) == Norm(n, d)
Zero == <<0, 1>>
One == <<1, 1>>
NoneVal == <<0, 0>>
Inf == <<1, 0>>

IsNone(x) == x = NoneVal
IsInf(x) == x = Inf

RatAdd(a, b) ==
    CHOOSE q \in {Norm(x[1] * y[2] + y[1] * x[2], x[2] * y[2]) : x \in {a}, y \in {b}} : TRUE
RatSub(a, b) ==
    CHOOSE q \in {Norm(x[1] * y[2] - y[1] * x[2], x[2] * y[2]) : x \in {a}, y \in {b}} : TRUE
RatMul(a, b) ==
    CHOOSE q \in {Norm(x[1] * y[1], x[2] * y[2]) : x \in {a}, y \in {b}} : TRUE
\* Every division of the source is guarded by a test that the divisor is > 0.
RatDiv(a, b) ==
    CHOOSE q \in {Norm(x[1] * y[2], x[2] * y[1]) : x \in {a}, y \in {b}} : TRUE
\* x < inf holds for every finite x; inf < inf does not.
RatLt(a, b) ==
    IF IsInf(b) THEN ~IsInf(a)
    ELSE IF IsInf(a) THEN FALSE
    ELSE a[1] * b[2] < b[1] * a[2]
RatLe(a, b) == a = b \/ RatLt(a, b)

-----------------------------------------------------------------------------
(* Python values that reach math.prod and the * operator: the int 1 that   *)
(* math.prod starts from, floats, a list (the stored route_segments value) *)
(* and the TypeError that * raises on a float and a list.                  *)

PyInt1 == [kind |-> "int", num |-> One, segs |-> <<>>]
PyFloat(x) == [kind |-> "float", num |-> x, segs |-> <<>>]
PyList(s) == [kind |-> "list", num |-> NoneVal, segs |-> s]
PyTypeError == [kind |-> "TypeError", num |-> NoneVal, segs |-> <<>>]

IsNumber(v) == v.kind \in {"int", "float"}

\* a * b: numbers multiply; int 1 * list is the list; float * list, list * float
\* and list * list raise TypeError; an exception already raised propagates.
PyMul(a, b) ==
    IF a.kind = "TypeError" \/ b.kind = "TypeError" THEN PyTypeError
    ELSE IF IsNumber(a) /\ IsNumber(b) THEN
        [kind |-> IF a.kind = "int" /\ b.kind = "int" THEN "int" ELSE "float",
         num |-> RatMul(a.num, b.num), segs |-> <<>>]
    ELSE IF a.kind = "int" /\ b.kind = "list" THEN b
    ELSE IF a.kind = "list" /\ b.kind = "int" THEN a
    ELSE PyTypeError

RECURSIVE MathProdFrom(_, _, _)
MathProdFrom(values, i, acc) ==
    IF i > Len(values) THEN acc
    ELSE MathProdFrom(values, i + 1, PyMul(acc, values[i]))

MathProd(values) == MathProdFrom(values, 1, PyInt1)

\* An optional list: None, or a list of items.
NoneList == [none |-> TRUE, items |-> <<>>]
ListOf(s) == [none |-> FALSE, items |-> s]
\* Python's "not x" for an optional list.
Falsy(l) == l.none \/ l.items = <<>>

\* dict.get(key, default) on a segment record: an absent key is NoneVal.
SegGet(seg, key, default) == IF IsNone(seg[key]) THEN default ELSE seg[key]

-----------------------------------------------------------------------------
(* The formula library.                                                    *)

\* Faulty variant: the guard tests the wrong operand.
calculate_return_factor_wrong_guard(operating_hours, avg_visit_duration) ==
    IF RatLe(operating_hours, Zero) THEN Zero
    ELSE RatDiv(operating_hours, avg_visit_duration)

calculate_return_factor(operating_hours, avg_visit_duration) ==
    IF RatLe(avg_visit_duration, Zero) THEN Zero
    ELSE RatDiv(operating_hours, avg_visit_duration)

\* Faulty variant: the period length is left out of the product.
calculate_base_capacity_areal_no_period(inp) ==
    IF IsNone(inp.area_sq_m) \/ inp.area_sq_m = Zero
       \/ RatLe(inp.area_per_visitor, Zero)
    THEN Zero
    ELSE RatMul(RatDiv(inp.area_sq_m, inp.area_per_visitor),
                IF RatLe(inp.avg_visit_duration, Zero) THEN Zero
                ELSE RatDiv(inp.operating_hours, inp.avg_visit_duration))

calculate_base_capacity_areal(inp) ==
    IF IsNone(inp.area_sq_m) \/ inp.area_sq_m = Zero
       \/ RatLe(inp.area_per_visitor, Zero)
    THEN Zero
    ELSE LET rf == calculate_return_factor(inp.operating_hours,
                                           inp.avg_visit_duration)
         IN  RatMul(RatMul(RatDiv(inp.area_sq_m, inp.area_per_visitor), rf),
                    inp.time_unit_days)

MaxLen(n) == IF n > 1 THEN n ELSE 1

\* What one iteration of the day_trip loop adds to total_capacity.
SegmentCapacity(segment, ts) ==
    LET dtp == SegGet(segment, "length_km", Zero)
        dgp == SegGet(segment, "optimal_distance_km", One)
        tdp == SegGet(segment, "travel_time_hours", One)
    IN  IF RatLe(dgp, Zero) \/ RatLe(tdp, Zero) THEN Zero
        ELSE RatMul(RatDiv(dtp, dgp), RatDiv(ts, tdp))

RECURSIVE Bbcqp1Loop(_, _, _, _)
Bbcqp1Loop(segs, i, ts, total_capacity) ==
    IF i > Len(segs) THEN total_capacity
    ELSE Bbcqp1Loop(segs, i + 1, ts,
                    RatAdd(total_capacity, SegmentCapacity(segs[i], ts)))

\* Faulty variant: only the segments that were not skipped are counted.
DaysOnRouteCountingUsed(segs) ==
    MaxLen(Cardinality({i \in 1..Len(segs) :
        /\ RatLt(Zero, SegGet(segs[i], "optimal_distance_km", One))
        /\ RatLt(Zero, SegGet(segs[i], "travel_time_hours", One))}))

\* days_on_route = max(len(inputs.route_segments), 1)
DaysOnRoute(segs) == MaxLen(Len(segs))

\* Faulty variant: a route without segments is taken as one segment of the
\* whole route length with the default distance and time.
calculate_bbcqp1_whole_route(inp) ==
    LET segs == IF Falsy(inp.route_segments)
                THEN <<[length_km |-> inp.length_km,
                        optimal_distance_km |-> NoneVal,
                        travel_time_hours |-> NoneVal,
                        avg_speed_kmh |-> NoneVal]>>
                ELSE inp.route_segments.items
        total_capacity == Bbcqp1Loop(segs, 1, inp.operating_hours, Zero)
    IN  RatMul(RatMul(total_capacity, inp.avg_group_size),
               RatDiv(inp.time_unit_days, R(DaysOnRoute(segs))))

calculate_bbcqp1(inp) ==
    IF Falsy(inp.route_segments) THEN Zero
    ELSE LET segs == inp.route_segments.items
             total_capacity == Bbcqp1Loop(segs, 1, inp.operating_hours, Zero)
         IN  RatMul(RatMul(total_capacity, inp.avg_group_size),
                    RatDiv(inp.time_unit_days, R(DaysOnRoute(segs))))

calculate_max_groups_per_day(segment, operating_hours) ==
    LET dgp == SegGet(segment, "optimal_distance_km", One)
        tdp == SegGet(segment, "travel_time_hours", One)
        vp == SegGet(segment, "avg_speed_kmh", R(3))
    IN  IF RatLe(dgp, Zero) \/ RatLe(tdp, Zero) THEN Zero
        ELSE RatAdd(One, RatDiv(RatMul(vp, RatSub(operating_hours, tdp)), dgp))

RECURSIVE Bbcqp2Loop(_, _, _, _)
Bbcqp2Loop(segs, i, ts, total_groups) ==
    IF i > Len(segs) THEN total_groups
    ELSE Bbcqp2Loop(segs, i + 1, ts,
                    RatAdd(total_groups,
                           calculate_max_groups_per_day(segs[i], ts)))

\* Faulty variant: the period is not divided by the number of segments.
calculate_bbcqp2_whole_period(inp) ==
    IF Falsy(inp.route_segments) THEN Zero
    ELSE LET segs == inp.route_segments.items
             total_groups == Bbcqp2Loop(segs, 1, inp.operating_hours, Zero)
         IN  RatMul(RatMul(total_groups, inp.avg_group_size),
                    inp.time_unit_days)

calculate_bbcqp2(inp) ==
    IF Falsy(inp.route_segments) THEN Zero
    ELSE LET segs == inp.route_segments.items
             total_groups == Bbcqp2Loop(segs, 1, inp.operating_hours, Zero)
         IN  RatMul(RatMul(total_groups, inp.avg_group_size),
                    RatDiv(inp.time_unit_days, R(MaxLen(Len(segs)))))

RECURSIVE Bbcqp3Loop(_, _, _, _)
Bbcqp3Loop(segs, i, ts, min_groups) ==
    IF i > Len(segs) THEN min_groups
    ELSE LET max_groups == calculate_max_groups_per_day(segs[i], ts)
         IN  Bbcqp3Loop(segs, i + 1, ts,
                        IF RatLt(max_groups, min_groups) THEN max_groups
                        ELSE min_groups)

\* Faulty variant: the minimum is spread over the segments, as in bbcqp2.
calculate_bbcqp3_per_segment(inp) ==
    IF Falsy(inp.route_segments) THEN Zero
    ELSE LET min_groups == Bbcqp3Loop(inp.route_segments.items, 1,
                                      inp.operating_hours, Inf)
         IN  IF IsInf(min_groups) THEN Zero
             ELSE RatMul(RatMul(min_groups, inp.avg_group_size),
                         RatDiv(inp.time_unit_days,
                                R(MaxLen(Len(inp.route_segments.items)))))

calculate_bbcqp3(inp) ==
    IF Falsy(inp.route_segments) THEN Zero
    ELSE LET min_groups == Bbcqp3Loop(inp.route_segments.items, 1,
                                      inp.operating_hours, Inf)
         IN  IF IsInf(min_groups) THEN Zero
             ELSE RatMul(RatMul(min_groups, inp.avg_group_size),
                         inp.time_unit_days)

calculate_base_capacity_linear(inp) ==
    IF inp.tourism_type = "day_trip" THEN calculate_bbcqp1(inp)
    ELSE IF inp.tourism_type = "multi_day" THEN calculate_bbcqp2(inp)
    ELSE IF inp.tourism_type = "autonomous" THEN calculate_bbcqp3(inp)
    ELSE Zero

\* Returns a Python value: a float, or the TypeError raised by the product.
calculate_potential_capacity(base_capacity, correction_factors) ==
    IF correction_factors = <<>> THEN PyFloat(base_capacity)
    ELSE PyMul(PyFloat(base_capacity), MathProd(correction_factors))

\* Faulty variant: the management factor is not applied.
calculate_pdre_capacity_unmanaged(potential_capacity, management_factor) ==
    potential_capacity

calculate_pdre_capacity(potential_capacity, management_factor) ==
    RatMul(potential_capacity, management_factor)

RECURSIVE SumFrom(_, _)
SumFrom(xs, i) == IF i > Len(xs) THEN Zero ELSE RatAdd(xs[i], SumFrom(xs, i + 1))

calculate_total_pdre(object_capacities) == SumFrom(object_capacities, 1)

\* "inputs.correction_factors or [1.0]"
FactorsOrNeutral(l) == IF Falsy(l) THEN <<PyFloat(One)>> ELSE l.items

BaseCapacityFor(inp) ==
    IF inp.object_type = "areal" THEN calculate_base_capacity_areal(inp)
    ELSE calculate_base_capacity_linear(inp)

\* calculate_for_object after the base capacity has been computed: the
\* results dict, or the exception that left the function (exc).
ResultsFromBase(inp, base_capacity) ==
    LET return_factor == calculate_return_factor(inp.operating_hours,
                                                 inp.avg_visit_duration)
        potential == calculate_potential_capacity(
                         base_capacity, FactorsOrNeutral(inp.correction_factors))
    IN  IF potential.kind = "TypeError"
        THEN [exc |-> "TypeError", return_factor |-> NoneVal,
              base_capacity |-> NoneVal, potential_capacity |-> NoneVal,
              pdre_capacity |-> NoneVal]
        ELSE [exc |-> "none", return_factor |-> return_factor,
              base_capacity |-> base_capacity,
              potential_capacity |-> potential.num,
              pdre_capacity |-> calculate_pdre_capacity(potential.num,
                                                        inp.management_factor)]

calculate_for_object(inp) == ResultsFromBase(inp, BaseCapacityFor(inp))

-----------------------------------------------------------------------------
(* Bounded input space of calculate_for_object.                            *)

MaxSegments == 2
MaxFactors == 2

SegExample ==
    [length_km |-> R(5), optimal_distance_km |-> R(5),
     travel_time_hours |-> R(2), avg_speed_kmh |-> NoneVal]
SegZeroDistance ==
    [length_km |-> R(5), optimal_distance_km |-> Zero,
     travel_time_hours |-> R(2), avg_speed_kmh |-> R(3)]
SegSlow ==
    [length_km |-> R(2), optimal_distance_km |-> One,
     travel_time_hours |-> R(10), avg_speed_kmh |-> R(3)]
SegDefaults ==
    [length_km |-> NoneVal, optimal_distance_km |-> NoneVal,
     travel_time_hours |-> NoneVal, avg_speed_kmh |-> NoneVal]

\* Two segments whose daily group counts are 5 and 3.
SegGp5 ==
    [length_km |-> One, optimal_distance_km |-> One,
     travel_time_hours |-> R(6), avg_speed_kmh |-> R(2)]
SegGp3 ==
    [length_km |-> One, optimal_distance_km |-> One,
     travel_time_hours |-> R(6), avg_speed_kmh |-> One]
SegNegLength ==
    [length_km |-> R(-5), optimal_distance_km |-> R(5),
     travel_time_hours |-> R(2), avg_speed_kmh |-> NoneVal]

Segments ==
    {SegExample, SegZeroDistance, SegSlow, SegDefaults, SegGp5, SegGp3,
     SegNegLength}

SeqsUpTo(S, n) == UNION {[1..k -> S] : k \in 0..n}

SegmentLists == {NoneList} \cup {ListOf(s) : s \in SeqsUpTo(Segments, MaxSegments)}

Floats(S) == {PyFloat(x) : x \in S}

FactorLists(S) == {NoneList} \cup {ListOf(s) : s \in SeqsUpTo(Floats(S), MaxFactors)}

ArealInputs ==
    [object_type : {"areal"}, tourism_type : {"facility"},
     area_sq_m : {NoneVal, Zero, R(1000), R(-100)},
     length_km : {NoneVal},
     area_per_visitor : {R(10), Zero, R(-5)},
     operating_hours : {R(8), Zero},
     avg_visit_duration : {R(2), Zero, R(-1)},
     avg_group_size : {R(3)},
     time_unit_days : {R(30), R(7)},
     route_segments : {NoneList},
     correction_factors : FactorLists({Zero, Q(1, 2), One, Q(3, 2)}),
     management_factor : {Zero, Q(4, 5), One}]

LinearInputs ==
    [object_type : {"linear", "point"},
     tourism_type : {"day_trip", "multi_day", "autonomous", "facility"},
     area_sq_m : {NoneVal},
     length_km : {R(5)},
     area_per_visitor : {R(10)},
     operating_hours : {R(8)},
     avg_visit_duration : {R(2), Zero},
     avg_group_size : {R(3)},
     time_unit_days : {R(30)},
     route_segments : SegmentLists,
     correction_factors : FactorLists({Q(1, 2), Q(3, 2)}),
     management_factor : {Zero, Q(4, 5)}]

InputSpace == ArealInputs \cup LinearInputs

NoInputs ==
    [object_type |-> "none", tourism_type |-> "none", area_sq_m |-> NoneVal,
     length_km |-> NoneVal, area_per_visitor |-> NoneVal,
     operating_hours |-> NoneVal, avg_visit_duration |-> NoneVal,
     avg_group_size |-> NoneVal, time_unit_days |-> NoneVal,
     route_segments |-> NoneList, correction_factors |-> NoneList,
     management_factor |-> NoneVal]

NoResults ==
    [exc |-> "pending", return_factor |-> NoneVal, base_capacity |-> NoneVal,
     potential_capacity |-> NoneVal, pdre_capacity |-> NoneVal]

\* The area-level state when only the object calculator is exercised.
AreaIdle ==
    /\ objects = <<>>
    /\ areas = <<>>
    /\ pc = "idle"
    /\ req = 0
    /\ order = <<>>
    /\ idx = 0
    /\ total_pdre = Zero
    /\ object_results = <<>>
    /\ outcome = "none"
    /\ last_inputs = NoInputs

NoLaw == [base |-> Zero, f1 |-> Zero, f2 |-> Zero, direct |-> NoneVal,
          nested |-> NoneVal, done |-> FALSE]

NoSeg == [pc |-> "idle", i |-> 0, acc |-> Zero]
NoView == [pc |-> "idle", id |-> 0, row |-> <<>>]
NoPrev == [area |-> 0, total |-> NoneVal, records |-> <<>>, rows |-> <<>>]
NoTask == [pc |-> "idle", area |-> 0, period |-> "none", record |-> 0,
           outcome |-> "none"]

\* No stepwise formula, no object update, no recalculate request and no task.
ExtIdle ==
    /\ segloop = NoSeg
    /\ edits = <<>>
    /\ view = NoView
    /\ prev = NoPrev
    /\ task = NoTask
    /\ calc_results = <<>>

\* No concurrent area calculations.
ConcIdle == runs = <<>> /\ db0 = <<>>

\* The remaining state when neither calculate_potential_capacity on its own
\* nor concurrent runs are exercised.
AuxIdle == law = NoLaw /\ ConcIdle /\ ExtIdle

InitObj ==
    /\ inputs \in InputSpace
    /\ results = NoResults
    /\ AreaIdle
    /\ AuxIdle

\* One call of PDREMethodology.calculate_for_object(inputs).
CalcObject ==
    /\ results = NoResults
    /\ results' = calculate_for_object(inputs)
    /\ UNCHANGED <<auxVars, inputs, areaVars>>

NextObj == CalcObject

SpecObj == InitObj /\ [][NextObj]_vars

-----------------------------------------------------------------------------
(* calculate_potential_capacity on floats.  A Python float is a binary      *)
(* floating-point number and every * rounds its exact result to the nearest *)
(* representable number, ties to the even significand.  binary64 keeps 53   *)
(* significant bits; here a float keeps MantissaBits significant bits, with *)
(* the same rounding rule and an unbounded exponent.                        *)

MantissaBits == 4

RECURSIVE Pow2(_)
Pow2(k) == IF k = 0 THEN 1 ELSE 2 * Pow2(k - 1)

\* For y > 0: <<m, e>> with y * 2^e = the argument and
\* 2^(MantissaBits-1) <= m < 2^MantissaBits.
RECURSIVE Scale(_, _)
Scale(y, e) ==
    IF RatLe(R(Pow2(MantissaBits)), y) THEN Scale(RatDiv(y, R(2)), e + 1)
    ELSE IF RatLt(y, R(Pow2(MantissaBits - 1)))
         THEN Scale(RatMul(y, R(2)), e - 1)
         ELSE <<y, e>>

\* The integer nearest to the rational y >= 0, ties to even.
RoundHalfEven(y) ==
    LET fl == y[1] \div y[2]
        twice_rest == 2 * (y[1] - fl * y[2])
    IN  IF twice_rest < y[2] THEN fl
        ELSE IF twice_rest > y[2] THEN fl + 1
        ELSE IF fl % 2 = 0 THEN fl ELSE fl + 1

\* The float nearest to the exact value x.
FloatRound(x) ==
    IF x = Zero THEN Zero
    ELSE LET s == Scale(Q(Abs(x[1]), x[2]), 0)
             m == RoundHalfEven(s[1])
             v == IF s[2] >= 0 THEN R(m * Pow2(s[2])) ELSE Q(m, Pow2(-s[2]))
         IN  IF x[1] < 0 THEN RatSub(Zero, v) ELSE v

\* a * b on floats.
FloatMul(a, b) == FloatRound(RatMul(a, b))

\* math.prod(factors): start = 1, then start *= f for each f.
RECURSIVE FloatProdFrom(_, _, _)
FloatProdFrom(factors, i, acc) ==
    IF i > Len(factors) THEN acc
    ELSE FloatProdFrom(factors, i + 1, FloatMul(acc, factors[i]))

\* Faulty variant: only the first factor is applied.
calculate_potential_capacity_first_factor(base_capacity, correction_factors) ==
    IF correction_factors = <<>> THEN base_capacity
    ELSE FloatMul(base_capacity, correction_factors[1])

\* calculate_potential_capacity with its two products evaluated on floats.
calculate_potential_capacity_rounded(base_capacity, correction_factors) ==
    IF correction_factors = <<>> THEN base_capacity
    ELSE FloatMul(base_capacity, FloatProdFrom(correction_factors, 1, One))

\* Arguments that are floats at every MantissaBits >= 4.
LawBases == {R(3), R(5), R(10), R(15)}
LawFactors == {Q(1, 2), Q(5, 8), Q(3, 4), Q(13, 16), Q(15, 16), One}

InitLaw ==
    /\ inputs = NoInputs
    /\ results = NoResults
    /\ AreaIdle
    /\ ConcIdle
    /\ ExtIdle
    /\ \E b \in LawBases, x \in LawFactors, y \in LawFactors :
           law = [base |-> b, f1 |-> x, f2 |-> y, direct |-> NoneVal,
                  nested |-> NoneVal, done |-> FALSE]

\* calculate_potential_capacity(base, [f1, f2]) and
\* calculate_potential_capacity(calculate_potential_capacity(base, [f1]), [f2]).
ApplyFactors ==
    /\ ~law.done
    /\ law' = [law EXCEPT
                 !.direct = calculate_potential_capacity_rounded(
                                law.base, <<law.f1, law.f2>>),
                 !.nested = calculate_potential_capacity_rounded(
                                calculate_potential_capacity_rounded(
                                    law.base, <<law.f1>>),
                                <<law.f2>>),
                 !.done = TRUE]
    /\ UNCHANGED <<objVars, areaVars, runs, db0, extVars>>

NextLaw == ApplyFactors

SpecLaw == InitLaw /\ [][NextLaw]_vars

-----------------------------------------------------------------------------
(* The stored rows and the two callers that build CalculationInputs from   *)
(* them: calculate_for_protected_area and the recalculate view.            *)

NumObjects == 2
BasePeriodDays == 30
DefaultTimeUnitDays == 30

ObjectIds == 1..NumObjects
AreaIds == {1, 2}
\* Identifier 3 resolves to no ProtectedArea.
RequestIds == {1, 2, 3}

\* The JSON bag stored in TourismObject.correction_factors: an ordered dict,
\* here the sequence of its (key, value) entries.
Entry(k, v) == [key |-> k, val |-> v]
BagEmpty == <<>>
BagOneFactor == <<Entry("Cf1", PyFloat(Q(1, 2)))>>
BagTwoFactors == <<Entry("Cf1", PyFloat(Q(1, 2))), Entry("Cf2", PyFloat(Q(9, 10)))>>
BagSegmentsOnly == <<Entry("route_segments", PyList(<<SegExample>>))>>
BagFactorAndSegments ==
    <<Entry("Cf1", PyFloat(Q(9, 10))),
      Entry("route_segments", PyList(<<SegExample, SegZeroDistance>>))>>

\* The input columns of a TourismObject row.
Profile(ot, tt, area, apv, avd, bag, mf) ==
    [object_type |-> ot, tourism_type |-> tt, area_sq_m |-> area,
     length_km |-> NoneVal, area_per_visitor |-> apv,
     operating_hours |-> R(8), avg_visit_duration |-> avd,
     avg_group_size |-> R(3), correction_factors |-> bag,
     management_factor |-> mf]

Profiles ==
    {Profile("areal", "facility", R(1000), R(10), R(2), BagOneFactor, Q(4, 5)),
     Profile("areal", "facility", R(500), R(10), R(2), BagEmpty, Q(1, 2)),
     Profile("areal", "facility", R(1000), Zero, Zero, BagTwoFactors, One),
     Profile("linear", "day_trip", NoneVal, R(10), R(2), BagSegmentsOnly, Q(4, 5)),
     Profile("linear", "day_trip", NoneVal, R(10), R(2), BagOneFactor, Q(4, 5)),
     Profile("linear", "multi_day", NoneVal, R(10), R(2), BagFactorAndSegments, Q(4, 5))}

\* A smaller set of stored objects for the scenarios with several
\* interleaved steps: a facility with one
\* factor, one with two, and a route whose bag holds route_segments.
ConcProfiles ==
    {Profile("areal", "facility", R(1000), R(10), R(2), BagOneFactor, Q(4, 5)),
     Profile("areal", "facility", R(500), R(10), R(2), BagTwoFactors, Q(1, 2)),
     Profile("linear", "day_trip", NoneVal, R(10), R(2), BagSegmentsOnly, Q(4, 5))}

\* Where a row lives: <<protected_area, is_active>>.
Placements == {<<1, TRUE>>, <<1, FALSE>>, <<2, TRUE>>}

NameOf(o) == IF o <= 2 THEN "trail" ELSE "camp"

MakeRow(o, profile, placement) ==
    [protected_area |-> placement[1], name |-> NameOf(o),
     is_active |-> placement[2],
     object_type |-> profile.object_type,
     tourism_type |-> profile.tourism_type,
     area_sq_m |-> profile.area_sq_m, length_km |-> profile.length_km,
     area_per_visitor |-> profile.area_per_visitor,
     operating_hours |-> profile.operating_hours,
     avg_visit_duration |-> profile.avg_visit_duration,
     avg_group_size |-> profile.avg_group_size,
     correction_factors |-> profile.correction_factors,
     management_factor |-> profile.management_factor,
     return_factor |-> NoneVal, base_capacity |-> NoneVal,
     potential_capacity |-> NoneVal, pdre_capacity |-> NoneVal]

NewArea == [pdre_value |-> NoneVal, calculation_method |-> "none"]

\* list(bag.values()) if bag else []
BagValues(bag) == [i \in 1..Len(bag) |-> bag[i].val]

HasKey(bag, k) == \E i \in 1..Len(bag) : bag[i].key = k

\* bag.get("route_segments", []) if bag else []
BagRouteSegments(bag) ==
    IF HasKey(bag, "route_segments")
    THEN bag[CHOOSE i \in 1..Len(bag) : bag[i].key = "route_segments"].val.segs
    ELSE <<>>

CorrectionValues(bag) == BagValues(bag)

InputsFromRow(row, days) ==
    [object_type |-> row.object_type, tourism_type |-> row.tourism_type,
     area_sq_m |-> row.area_sq_m, length_km |-> row.length_km,
     area_per_visitor |-> row.area_per_visitor,
     operating_hours |-> row.operating_hours,
     avg_visit_duration |-> row.avg_visit_duration,
     avg_group_size |-> row.avg_group_size,
     time_unit_days |-> R(days),
     route_segments |-> ListOf(BagRouteSegments(row.correction_factors)),
     correction_factors |-> ListOf(CorrectionValues(row.correction_factors)),
     management_factor |-> row.management_factor]

\* Faulty variant: a row that already holds a result is taken as fully
\* managed.
BuildInputsAreaFeedback(row) ==
    [InputsFromRow(row, BasePeriodDays) EXCEPT
        !.management_factor =
            IF IsNone(row.pdre_capacity) THEN row.management_factor ELSE One]

\* Faulty variant: the period of the running task sets the number of days.
BuildInputsAreaByPeriod(row) ==
    InputsFromRow(row, IF task.period = "season" THEN 90 ELSE BasePeriodDays)

\* calculate_for_protected_area passes time_unit_days=30.
BuildInputsArea(row) == InputsFromRow(row, BasePeriodDays)

\* Faulty variant: the view calculates for a week.
BuildInputsRecalcWeek(row) == InputsFromRow(row, 7)

\* The recalculate view leaves time_unit_days at the dataclass default.
BuildInputsRecalc(row) == InputsFromRow(row, DefaultTimeUnitDays)

\* obj.save() after the four computed fields were assigned: the whole
\* instance, as it was read, is written back.
\* Faulty variant: the potential capacity is stored as the PDRE as well.
SavedRowPotentialTwice(row, res) ==
    [row EXCEPT !.return_factor = res.return_factor,
                !.base_capacity = res.base_capacity,
                !.potential_capacity = res.potential_capacity,
                !.pdre_capacity = res.potential_capacity]

\* The four assignments to obj and obj.save(), which writes the whole row.
SavedRow(row, res) ==
    [row EXCEPT !.return_factor = res.return_factor,
                !.base_capacity = res.base_capacity,
                !.potential_capacity = res.potential_capacity,
                !.pdre_capacity = res.pdre_capacity]

ResultRecord(o, row, res) ==
    [object_id |-> o, object_name |-> row.name,
     return_factor |-> res.return_factor, base_capacity |-> res.base_capacity,
     potential_capacity |-> res.potential_capacity,
     pdre_capacity |-> res.pdre_capacity]

\* Faulty variant: every identifier is taken to resolve to an area.
AreaExistsAlways(id) == TRUE

\* ProtectedArea.objects.get(id=...) finds a row.
AreaExists(id) == id \in DOMAIN areas

\* Faulty variant: the filter does not test is_active.
ActiveObjectsAnyState(id) ==
    {o \in DOMAIN objects : objects[o].protected_area = id}

\* Faulty variant: the filter does not test protected_area.
ActiveObjectsAnyArea(id) == {o \in DOMAIN objects : objects[o].is_active}

\* TourismObject.objects.filter(protected_area=..., is_active=True)
ActiveObjects(id) ==
    {o \in DOMAIN objects :
        objects[o].protected_area = id /\ objects[o].is_active}

\* The orders in which the database may return the rows of a queryset that
\* states no ordering.
Orderings(S) ==
    {s \in [1..Cardinality(S) -> S] :
        \A i, j \in 1..Cardinality(S) : s[i] = s[j] => i = j}

\* Faulty variant: the running total starts from one instead of 0.0.
InitialTotalOne == One

InitialTotal == Zero

\* Faulty variant: the potential capacity is accumulated instead of the PDRE.
AccumulatePotential(total, res) == RatAdd(total, res.potential_capacity)

\* total_pdre += results["pdre_capacity"]
Accumulate(total, res) == RatAdd(total, res.pdre_capacity)

InitArea ==
    /\ inputs = NoInputs
    /\ results = NoResults
    /\ \E prof \in [ObjectIds -> Profiles], place \in [ObjectIds -> Placements] :
           objects = [o \in ObjectIds |-> MakeRow(o, prof[o], place[o])]
    /\ areas = [a \in AreaIds |-> NewArea]
    /\ pc = "idle"
    /\ req = 0
    /\ order = <<>>
    /\ idx = 0
    /\ total_pdre = Zero
    /\ object_results = <<>>
    /\ outcome = "none"
    /\ last_inputs = NoInputs
    /\ AuxIdle

\* calculate_for_protected_area, up to the evaluation of the queryset.
StartAreaCalc(id) ==
    /\ pc = "idle"
    /\ req' = id
    /\ IF ~AreaExists(id)
       THEN /\ pc' = "done"
            /\ outcome' = "ValueError"
            /\ UNCHANGED <<order, idx, total_pdre, object_results>>
       ELSE /\ \E ord \in Orderings(ActiveObjects(id)) :
                  order' = [i \in 1..Len(ord) |->
                               [id |-> ord[i], row |-> objects[ord[i]]]]
            /\ pc' = "loop"
            /\ idx' = 0
            /\ total_pdre' = InitialTotal
            /\ object_results' = <<>>
            /\ outcome' = "none"
    /\ UNCHANGED <<auxVars, inputs, results, objects, areas, last_inputs>>

\* One iteration of the loop over the queryset.
ProcessObject ==
    /\ pc = "loop"
    /\ idx < Len(order)
    /\ \E obj \in {order[idx + 1]} :
       \E inp \in {BuildInputsArea(obj.row)} :
       \E res \in {calculate_for_object(inp)} :
           /\ last_inputs' = inp
           /\ IF res.exc = "TypeError"
              THEN /\ pc' = "done"
                   /\ outcome' = "TypeError"
                   /\ UNCHANGED <<objects, idx, total_pdre, object_results>>
              ELSE /\ objects' = [objects EXCEPT ![obj.id] = SavedRow(obj.row, res)]
                   /\ total_pdre' = Accumulate(total_pdre, res)
                   /\ object_results' =
                          Append(object_results, ResultRecord(obj.id, obj.row, res))
                   /\ idx' = idx + 1
                   /\ UNCHANGED <<pc, outcome>>
    /\ UNCHANGED <<auxVars, inputs, results, areas, req, order>>

\* Faulty variant: the total is written to every ProtectedArea row.
SaveAreaEverywhere ==
    /\ pc = "loop"
    /\ idx = Len(order)
    /\ areas' = [a \in DOMAIN areas |->
                    [areas[a] EXCEPT !.pdre_value = total_pdre,
                                     !.calculation_method = "methodology_1809"]]
    /\ pc' = "done"
    /\ outcome' = "ok"
    /\ UNCHANGED <<auxVars, inputs, results, objects, req, order, idx, total_pdre,
                   object_results, last_inputs>>

\* After the loop: the area total is saved and the report returned.
SaveArea ==
    /\ pc = "loop"
    /\ idx = Len(order)
    /\ areas' = [areas EXCEPT ![req] =
                    [@ EXCEPT !.pdre_value = total_pdre,
                              !.calculation_method = "methodology_1809"]]
    /\ pc' = "done"
    /\ outcome' = "ok"
    /\ UNCHANGED <<auxVars, inputs, results, objects, req, order, idx, total_pdre,
                   object_results, last_inputs>>

\* TourismObjectViewSet.recalculate for one stored object.
Recalculate(o) ==
    /\ pc = "idle"
    /\ LET row == objects[o]
           inp == BuildInputsRecalc(row)
           res == calculate_for_object(inp)
       IN  /\ last_inputs' = inp
           /\ IF res.exc = "TypeError"
              THEN /\ outcome' = "TypeError"
                   /\ UNCHANGED objects
              ELSE /\ outcome' = "ok"
                   /\ objects' = [objects EXCEPT ![o] = SavedRow(row, res)]
    /\ pc' = "responded"
    /\ req' = o
    /\ UNCHANGED <<auxVars, inputs, results, areas, order, idx, total_pdre, object_results>>

\* The caller has taken the result (or the exception) of the finished call.
Return ==
    /\ pc \in {"done", "responded"}
    /\ pc' = "idle"
    /\ req' = 0
    /\ order' = <<>>
    /\ idx' = 0
    /\ total_pdre' = Zero
    /\ object_results' = <<>>
    /\ outcome' = "none"
    /\ last_inputs' = NoInputs
    /\ UNCHANGED <<auxVars, inputs, results, objects, areas>>

Next ==
    \/ \E id \in RequestIds : StartAreaCalc(id)
    \/ ProcessObject
    \/ SaveArea
    \/ \E o \in ObjectIds : Recalculate(o)
    \/ Return

Spec == InitArea /\ [][Next]_vars

-----------------------------------------------------------------------------
(* The loops of the engine taken one iteration at a time: the segment loop *)
(* of a route formula inside calculate_for_object, and the object loop of  *)
(* calculate_for_protected_area.  A started call keeps executing, which is *)
(* the fairness assumed on the loop steps.                                 *)

LiveSegments == {SegExample, SegZeroDistance, SegGp3}

LiveInputs ==
    [object_type : {"linear"},
     tourism_type : {"day_trip", "multi_day", "autonomous", "facility"},
     area_sq_m : {NoneVal},
     length_km : {R(5)},
     area_per_visitor : {R(10)},
     operating_hours : {R(8)},
     avg_visit_duration : {R(2)},
     avg_group_size : {R(3)},
     time_unit_days : {R(30)},
     route_segments :
         {NoneList} \cup {ListOf(l) : l \in SeqsUpTo(LiveSegments, MaxSegments)},
     correction_factors : {ListOf(<<PyFloat(Q(1, 2))>>)},
     management_factor : {Q(4, 5)}]

\* Either a direct calculate_for_object call is pending on some inputs and
\* the tables are empty, or the tables are filled and areas are calculated.
InitLive ==
    /\ results = NoResults
    /\ pc = "idle"
    /\ req = 0
    /\ order = <<>>
    /\ idx = 0
    /\ total_pdre = Zero
    /\ object_results = <<>>
    /\ outcome = "none"
    /\ last_inputs = NoInputs
    /\ law = NoLaw
    /\ ConcIdle
    /\ ExtIdle
    /\ \/ /\ inputs \in LiveInputs
          /\ objects = <<>>
          /\ areas = <<>>
       \/ /\ inputs = NoInputs
          /\ \E prof \in [ObjectIds -> ConcProfiles],
                place \in [ObjectIds -> Placements] :
                 objects = [o \in ObjectIds |-> MakeRow(o, prof[o], place[o])]
          /\ areas = [a \in AreaIds |-> NewArea]

liveRest == <<areaVars, law, runs, db0, edits, view, prev, task, calc_results>>

\* The route formula that calculate_for_object runs for these inputs has a
\* segment loop to go through.
HasSegmentLoop(inp) ==
    /\ inp.object_type # "areal"
    /\ inp.tourism_type \in {"day_trip", "multi_day", "autonomous"}
    /\ ~Falsy(inp.route_segments)

\* calculate_for_object up to the first iteration of the segment loop, or to
\* its return when the formula has no loop.
FormulaBegin ==
    /\ inputs # NoInputs
    /\ results = NoResults
    /\ segloop.pc = "idle"
    /\ IF HasSegmentLoop(inputs)
       THEN /\ segloop' = [pc |-> "loop", i |-> 0,
                           acc |-> IF inputs.tourism_type = "autonomous"
                                   THEN Inf ELSE Zero]
            /\ UNCHANGED results
       ELSE /\ segloop' = [segloop EXCEPT !.pc = "done"]
            /\ results' = calculate_for_object(inputs)
    /\ UNCHANGED <<inputs, liveRest>>

\* Faulty variant: a skipped segment restarts the loop from the first one.
SegmentStepRestart ==
    /\ segloop.pc = "loop"
    /\ segloop.i < Len(inputs.route_segments.items)
    /\ LET segment == inputs.route_segments.items[segloop.i + 1]
           ts == inputs.operating_hours
           gp == calculate_max_groups_per_day(segment, ts)
           skipped ==
               \/ RatLe(SegGet(segment, "optimal_distance_km", One), Zero)
               \/ RatLe(SegGet(segment, "travel_time_hours", One), Zero)
       IN  segloop' =
               [segloop EXCEPT
                  !.i = IF skipped THEN 0 ELSE @ + 1,
                  !.acc = IF inputs.tourism_type = "day_trip"
                          THEN RatAdd(@, SegmentCapacity(segment, ts))
                          ELSE IF inputs.tourism_type = "multi_day"
                               THEN RatAdd(@, gp)
                               ELSE IF RatLt(gp, @) THEN gp ELSE @]
    /\ UNCHANGED <<inputs, results, liveRest>>

\* One iteration of "for segment in inputs.route_segments".
SegmentStep ==
    /\ segloop.pc = "loop"
    /\ segloop.i < Len(inputs.route_segments.items)
    /\ LET segment == inputs.route_segments.items[segloop.i + 1]
           ts == inputs.operating_hours
           gp == calculate_max_groups_per_day(segment, ts)
       IN  segloop' =
               [segloop EXCEPT
                  !.i = @ + 1,
                  !.acc = IF inputs.tourism_type = "day_trip"
                          THEN RatAdd(@, SegmentCapacity(segment, ts))
                          ELSE IF inputs.tourism_type = "multi_day"
                               THEN RatAdd(@, gp)
                               ELSE IF RatLt(gp, @) THEN gp ELSE @]
    /\ UNCHANGED <<inputs, results, liveRest>>

\* The return statement of the route formula applied to the loop's value.
BaseFromLoop(inp, acc) ==
    LET days == RatDiv(inp.time_unit_days,
                       R(MaxLen(Len(inp.route_segments.items))))
    IN  IF inp.tourism_type = "autonomous"
        THEN IF IsInf(acc) THEN Zero
             ELSE RatMul(RatMul(acc, inp.avg_group_size), inp.time_unit_days)
        ELSE RatMul(RatMul(acc, inp.avg_group_size), days)

\* After the last segment: the formula returns and calculate_for_object
\* computes the remaining values.
FormulaEnd ==
    /\ segloop.pc = "loop"
    /\ segloop.i = Len(inputs.route_segments.items)
    /\ segloop' = [segloop EXCEPT !.pc = "done"]
    /\ results' = ResultsFromBase(inputs, BaseFromLoop(inputs, segloop.acc))
    /\ UNCHANGED <<inputs, liveRest>>

NextLive ==
    \/ FormulaBegin
    \/ SegmentStep
    \/ FormulaEnd
    \/ \E id \in DOMAIN areas : StartAreaCalc(id)
    \/ ProcessObject
    \/ SaveArea
    \/ Return

SpecLive ==
    /\ InitLive
    /\ [][NextLive]_vars
    /\ WF_vars(SegmentStep)
    /\ WF_vars(FormulaEnd)
    /\ WF_vars(ProcessObject)
    /\ WF_vars(SaveArea)

-----------------------------------------------------------------------------
(* The area calculation next to the requests that change rows while it     *)
(* runs: the recalculate view, taken in two steps (the row is read, then   *)
(* the values are computed and the row saved), and updates of an object    *)
(* through the TourismObject endpoint.  No request waits for another.      *)

MaxEdits == 1

\* The fields an update request changes.
EditKinds == {"deactivate", "activate", "area_sq_m"}

\* The row after the update was applied to it.
Edited(row, kind) ==
    CASE kind = "deactivate" -> [row EXCEPT !.is_active = FALSE]
      [] kind = "activate" -> [row EXCEPT !.is_active = TRUE]
      [] OTHER -> [row EXCEPT !.area_sq_m = R(2000)]

InitEdit ==
    /\ inputs = NoInputs
    /\ results = NoResults
    /\ \E prof \in [ObjectIds -> ConcProfiles],
          place \in [ObjectIds -> Placements] :
           objects = [o \in ObjectIds |-> MakeRow(o, prof[o], place[o])]
    /\ areas = [a \in AreaIds |-> NewArea]
    /\ pc = "idle"
    /\ req = 0
    /\ order = <<>>
    /\ idx = 0
    /\ total_pdre = Zero
    /\ object_results = <<>>
    /\ outcome = "none"
    /\ last_inputs = NoInputs
    /\ AuxIdle

\* What no request of this section touches.
editFixed == <<inputs, results, law, runs, db0, segloop, prev, task,
               calc_results>>
runLocals == <<pc, req, order, idx, total_pdre, object_results, outcome,
               last_inputs>>

\* A PUT or PATCH on a TourismObject: the serializer sets the field on the
\* row it has just read and saves it.
EditObject(o, kind) ==
    /\ Len(edits) < MaxEdits
    /\ objects' = [objects EXCEPT ![o] = Edited(@, kind)]
    /\ edits' = Append(edits, [id |-> o, kind |-> kind])
    /\ UNCHANGED <<editFixed, runLocals, areas, view>>

\* recalculate: self.get_object() reads the row.
ViewRead(o) ==
    /\ view.pc = "idle"
    /\ view' = [pc |-> "read", id |-> o, row |-> objects[o]]
    /\ UNCHANGED <<editFixed, runLocals, objects, areas, edits>>

\* recalculate: the values are computed from the row that was read and the
\* row is saved; an exception of the engine leaves the table as it is.
ViewSave ==
    /\ view.pc = "read"
    /\ \E res \in {calculate_for_object(BuildInputsRecalc(view.row))} :
           IF res.exc = "TypeError"
           THEN UNCHANGED objects
           ELSE objects' = [objects EXCEPT ![view.id] = SavedRow(view.row, res)]
    /\ view' = NoView
    /\ UNCHANGED <<editFixed, runLocals, areas, edits>>

\* The caller has taken the report of the finished run; the report and the
\* tables it left are kept for comparison with the next run.
NextEdit ==
    \/ \E id \in AreaIds : StartAreaCalc(id)
    \/ ProcessObject
    \/ SaveArea
    \/ Return
    \/ \E o \in ObjectIds : ViewRead(o)
    \/ ViewSave
    \/ \E o \in ObjectIds, kind \in EditKinds : EditObject(o, kind)

SpecEdit == InitEdit /\ [][NextEdit]_vars

-----------------------------------------------------------------------------
(* Area runs one after the other with nothing else writing: the report of  *)
(* each returned run and the tables it left are kept, to be compared with  *)
(* the run that follows.                                                   *)

\* The caller has taken the report of the finished run.
ReturnReport ==
    /\ pc = "done"
    /\ prev' = IF outcome = "ok"
               THEN [area |-> req, total |-> total_pdre,
                     records |-> object_results, rows |-> objects]
               ELSE NoPrev
    /\ pc' = "idle"
    /\ req' = 0
    /\ order' = <<>>
    /\ idx' = 0
    /\ total_pdre' = Zero
    /\ object_results' = <<>>
    /\ outcome' = "none"
    /\ last_inputs' = NoInputs
    /\ UNCHANGED <<inputs, results, objects, areas, law, runs, db0, segloop,
                   edits, view, task, calc_results>>

NextRepeat ==
    \/ \E id \in AreaIds : StartAreaCalc(id)
    \/ ProcessObject
    \/ SaveArea
    \/ ReturnReport

SpecRepeat == InitEdit /\ [][NextRepeat]_vars

-----------------------------------------------------------------------------
(* The Celery task calculate_pdre_for_area: a CalculationResult row is     *)
(* created, the area is calculated, the map is generated and the row is    *)
(* completed, all inside one transaction.atomic() block.  The exception    *)
(* handler sits inside the block, so an exception of the calculation or of *)
(* the map is caught before the block sees it and the block commits.       *)
(*                                                                         *)
(* The INSERT of line 34 leaves total_pdre unset.  models.py declares the  *)
(* column without null=True and without default, and a table created from  *)
(* that declaration rejects the row with IntegrityError; the migrations    *)
(* that created the table are not part of the source, so a table that      *)
(* accepts the row is kept as the other outcome of the INSERT.             *)

MaxTasks == 2

Periods == {"month", "season"}

\* CalculationResult.objects.create(protected_area_id, calculation_period,
\* calculation_status="processing"): the other columns take their defaults.
NewCalculation(a, p) ==
    [protected_area |-> a, calculation_period |-> p,
     calculation_status |-> "processing", total_pdre |-> NoneVal,
     area_pdre |-> <<>>, error_message |-> "none"]

\* d[k] = v on a dict kept as the sequence of its entries.
DictPut(d, k, v) ==
    IF HasKey(d, k)
    THEN [j \in 1..Len(d) |-> IF d[j].key = k THEN Entry(k, v) ELSE d[j]]
    ELSE Append(d, Entry(k, v))

\* {obj["object_name"]: obj["pdre_capacity"] for obj in object_results}
RECURSIVE AreaPdreFrom(_, _, _)
AreaPdreFrom(records, i, d) ==
    IF i > Len(records) THEN d
    ELSE AreaPdreFrom(records, i + 1,
                      DictPut(d, records[i].object_name,
                              records[i].pdre_capacity))

\* The stored objects of the task scenarios: a facility, and a route whose
\* bag holds route_segments (its calculation raises TypeError).
TaskProfiles ==
    {Profile("areal", "facility", R(1000), R(10), R(2), BagOneFactor, Q(4, 5)),
     Profile("linear", "day_trip", NoneVal, R(10), R(2), BagSegmentsOnly, Q(4, 5))}

InitTask ==
    /\ inputs = NoInputs
    /\ results = NoResults
    /\ \E prof \in [ObjectIds -> TaskProfiles],
          place \in [ObjectIds -> Placements] :
           objects = [o \in ObjectIds |-> MakeRow(o, prof[o], place[o])]
    /\ areas = [a \in AreaIds |-> NewArea]
    /\ pc = "idle"
    /\ req = 0
    /\ order = <<>>
    /\ idx = 0
    /\ total_pdre = Zero
    /\ object_results = <<>>
    /\ outcome = "none"
    /\ last_inputs = NoInputs
    /\ AuxIdle

taskFixed == <<inputs, results, law, runs, segloop, edits, view>>

\* The task starts: the tables as they are now are what a rollback would
\* restore; then the INSERT, rejected or accepted.
TaskCreate(a, p) ==
    /\ task.pc = "idle"
    /\ pc = "idle"
    /\ Len(calc_results) < MaxTasks
    /\ db0' = [objects |-> objects, areas |-> areas]
    /\ \/ /\ task' = [pc |-> "raised", area |-> a, period |-> p, record |-> 0,
                      outcome |-> "IntegrityError"]
          /\ UNCHANGED calc_results
       \/ /\ calc_results' = Append(calc_results, NewCalculation(a, p))
          /\ task' = [pc |-> "calc", area |-> a, period |-> p,
                      record |-> Len(calc_results) + 1, outcome |-> "none"]
    /\ UNCHANGED <<taskFixed, areaVars, prev>>

\* Line 42: the area calculation is called with the area identifier only.
TaskCalc ==
    /\ task.pc = "calc"
    /\ StartAreaCalc(task.area)

\* Lines 43-70: the map is generated, the row is completed and saved, the
\* task returns success.
TaskComplete ==
    /\ task.pc = "calc"
    /\ pc = "done"
    /\ outcome = "ok"
    /\ calc_results' =
           [calc_results EXCEPT ![task.record] =
               [@ EXCEPT !.total_pdre = total_pdre,
                         !.area_pdre = AreaPdreFrom(object_results, 1, <<>>),
                         !.calculation_status = "completed"]]
    /\ task' = [task EXCEPT !.pc = "returned", !.outcome = "success"]
    /\ prev' = [area |-> req, total |-> total_pdre,
                records |-> object_results, rows |-> objects]
    /\ pc' = "idle"
    /\ req' = 0
    /\ order' = <<>>
    /\ idx' = 0
    /\ total_pdre' = Zero
    /\ object_results' = <<>>
    /\ outcome' = "none"
    /\ last_inputs' = NoInputs
    /\ UNCHANGED <<taskFixed, objects, areas, db0>>

\* Lines 71-81: the calculation raised, or create_pdre_heatmap raised
\* RuntimeError after a calculation that returned; the row is marked failed
\* and saved, the task returns failure and the block commits.
TaskFail ==
    /\ task.pc = "calc"
    /\ pc = "done"
    /\ calc_results' =
           [calc_results EXCEPT ![task.record] =
               [@ EXCEPT !.calculation_status = "failed",
                         !.error_message =
                             IF outcome = "ok" THEN "RuntimeError" ELSE outcome]]
    /\ task' = [task EXCEPT !.pc = "returned", !.outcome = "failure"]
    /\ pc' = "idle"
    /\ req' = 0
    /\ order' = <<>>
    /\ idx' = 0
    /\ total_pdre' = Zero
    /\ object_results' = <<>>
    /\ outcome' = "none"
    /\ last_inputs' = NoInputs
    /\ UNCHANGED <<taskFixed, objects, areas, db0, prev>>

\* The worker has taken the return value or the exception of the task.
TaskDone ==
    /\ task.pc \in {"returned", "raised"}
    /\ task' = NoTask
    /\ db0' = <<>>
    /\ UNCHANGED <<taskFixed, areaVars, prev, calc_results>>

NextTask ==
    \/ \E a \in AreaIds, p \in Periods : TaskCreate(a, p)
    \/ TaskCalc
    \/ ProcessObject
    \/ SaveArea
    \/ TaskComplete
    \/ TaskFail
    \/ TaskDone

SpecTask == InitTask /\ [][NextTask]_vars

-----------------------------------------------------------------------------
(* Two calculate_for_protected_area calls running at the same time, each   *)
(* in its own worker or request, on the shared tables.  A step is one      *)
(* database statement of a run together with the computation before it.   *)

RunIds == {1, 2}

\* The protected_area_id argument of each run: two different areas.
RunRequest == <<1, 2>>

RunIdle ==
    [pc |-> "idle", req |-> 0, area_row |-> NewArea, order |-> <<>>,
     idx |-> 0, total_pdre |-> Zero, object_results |-> <<>>,
     outcome |-> "none"]

InitConc ==
    /\ inputs = NoInputs
    /\ results = NoResults
    /\ \E prof \in [ObjectIds -> ConcProfiles], place \in [ObjectIds -> Placements] :
           objects = [o \in ObjectIds |-> MakeRow(o, prof[o], place[o])]
    /\ areas = [a \in AreaIds |-> NewArea]
    /\ pc = "idle"
    /\ req = 0
    /\ order = <<>>
    /\ idx = 0
    /\ total_pdre = Zero
    /\ object_results = <<>>
    /\ outcome = "none"
    /\ last_inputs = NoInputs
    /\ law = NoLaw
    /\ ExtIdle
    /\ runs = [r \in RunIds |-> RunIdle]
    /\ db0 = [objects |-> objects, areas |-> areas]

seqVars == <<inputs, results, pc, req, order, idx, total_pdre, object_results,
             outcome, last_inputs, law, db0, extVars>>

\* protected_area = ProtectedArea.objects.get(id=protected_area_id)
RunGetArea(r) ==
    /\ runs[r].pc = "idle"
    /\ LET id == RunRequest[r]
       IN  IF ~AreaExists(id)
           THEN runs' = [runs EXCEPT ![r].pc = "done", ![r].req = id,
                                     ![r].outcome = "ValueError"]
           ELSE runs' = [runs EXCEPT ![r].pc = "got_area", ![r].req = id,
                                     ![r].area_row = areas[id]]
    /\ UNCHANGED <<seqVars, objects, areas>>

\* The queryset is evaluated when the for loop starts.
RunEvaluateQueryset(r) ==
    /\ runs[r].pc = "got_area"
    /\ \E ord \in Orderings(ActiveObjects(runs[r].req)) :
           runs' = [runs EXCEPT
                      ![r].order = [i \in 1..Len(ord) |->
                                      [id |-> ord[i], row |-> objects[ord[i]]]],
                      ![r].pc = "loop",
                      ![r].idx = 0,
                      ![r].total_pdre = InitialTotal]
    /\ UNCHANGED <<seqVars, objects, areas>>

\* One iteration of the loop of run r.
RunProcessObject(r) ==
    /\ runs[r].pc = "loop"
    /\ runs[r].idx < Len(runs[r].order)
    /\ LET obj == runs[r].order[runs[r].idx + 1]
           res == calculate_for_object(BuildInputsArea(obj.row))
       IN  IF res.exc = "TypeError"
           THEN /\ runs' = [runs EXCEPT ![r].pc = "done",
                                        ![r].outcome = "TypeError"]
                /\ UNCHANGED objects
           ELSE /\ objects' = [objects EXCEPT ![obj.id] = SavedRow(obj.row, res)]
                /\ runs' = [runs EXCEPT
                              ![r].total_pdre = Accumulate(@, res),
                              ![r].object_results =
                                  Append(@, ResultRecord(obj.id, obj.row, res)),
                              ![r].idx = @ + 1]
    /\ UNCHANGED <<seqVars, areas>>

\* protected_area.save() of run r, which writes the row read at the start.
RunSaveArea(r) ==
    /\ runs[r].pc = "loop"
    /\ runs[r].idx = Len(runs[r].order)
    /\ areas' = [areas EXCEPT ![runs[r].req] =
                    [runs[r].area_row EXCEPT
                        !.pdre_value = runs[r].total_pdre,
                        !.calculation_method = "methodology_1809"]]
    /\ runs' = [runs EXCEPT ![r].pc = "done", ![r].outcome = "ok"]
    /\ UNCHANGED <<seqVars, objects>>

NextConc ==
    \E r \in RunIds :
        \/ RunGetArea(r)
        \/ RunEvaluateQueryset(r)
        \/ RunProcessObject(r)
        \/ RunSaveArea(r)

SpecConc == InitConc /\ [][NextConc]_vars

-----------------------------------------------------------------------------
(* Properties of calculate_for_object, checked under SpecObj.              *)

Returned == results.exc = "none"

InUnit(x) == RatLe(Zero, x) /\ RatLe(x, One)
Positive(x) == ~IsNone(x) /\ RatLt(Zero, x)

FactorItems(inp) == inp.correction_factors.items
SegmentItems(inp) == inp.route_segments.items

FactorsInUnit(inp) ==
    \A i \in 1..Len(FactorItems(inp)) :
        FactorItems(inp)[i].kind = "float" /\ InUnit(FactorItems(inp)[i].num)

RECURSIVE SumOver(_, _)
SumOver(f, S) ==
    IF S = {} THEN Zero
    ELSE LET x == CHOOSE y \in S : TRUE
         IN  RatAdd(f[x], SumOver(f, S \ {x}))

\* C1: whenever all correction factors and the management factor lie in
\* [0,1], an areal or linear object gets
\* 0 <= pdre_capacity <= potential_capacity <= base_capacity.
C1_MonotonicShrink ==
    (/\ Returned
     /\ inputs.object_type \in {"areal", "linear"}
     /\ FactorsInUnit(inputs)
     /\ InUnit(inputs.management_factor))
    => /\ RatLe(Zero, results.pdre_capacity)
       /\ RatLe(results.pdre_capacity, results.potential_capacity)
       /\ RatLe(results.potential_capacity, results.base_capacity)

InHalfOpenUnit(x) == RatLt(Zero, x) /\ RatLe(x, One)

FactorsInHalfOpenUnit(inp) ==
    \A i \in 1..Len(FactorItems(inp)) :
        /\ FactorItems(inp)[i].kind = "float"
        /\ InHalfOpenUnit(FactorItems(inp)[i].num)

SegmentInDomain(seg) ==
    /\ Positive(SegGet(seg, "length_km", Zero))
    /\ Positive(SegGet(seg, "optimal_distance_km", One))
    /\ Positive(SegGet(seg, "travel_time_hours", One))
    /\ Positive(SegGet(seg, "avg_speed_kmh", R(3)))

InDocumentedDomain(inp) ==
    /\ Positive(inp.operating_hours)
    /\ Positive(inp.avg_visit_duration)
    /\ Positive(inp.avg_group_size)
    /\ Positive(inp.area_per_visitor)
    /\ IsNone(inp.area_sq_m) \/ Positive(inp.area_sq_m)
    /\ Positive(inp.time_unit_days)
    /\ \A i \in 1..Len(SegmentItems(inp)) : SegmentInDomain(SegmentItems(inp)[i])
    /\ FactorsInHalfOpenUnit(inp)
    /\ InUnit(inp.management_factor)

\* C2: with every numeric input in its documented domain, return_factor,
\* base_capacity, potential_capacity and pdre_capacity are all >= 0, and the
\* max-groups-per-day value of every segment is >= 0.
C2_NonNegative ==
    (Returned /\ InDocumentedDomain(inputs))
    => /\ RatLe(Zero, results.return_factor)
       /\ RatLe(Zero, results.base_capacity)
       /\ RatLe(Zero, results.potential_capacity)
       /\ RatLe(Zero, results.pdre_capacity)
       /\ (inputs.object_type = "linear"
            /\ inputs.tourism_type \in {"multi_day", "autonomous"})
           => \A i \in 1..Len(SegmentItems(inputs)) :
                  RatLe(Zero,
                        calculate_max_groups_per_day(SegmentItems(inputs)[i],
                                                     inputs.operating_hours))

\* C8: the return factor is 0 for every avg_visit_duration <= 0 and is
\* operating_hours / avg_visit_duration for every avg_visit_duration > 0.
C8_ReturnFactor ==
    Returned =>
        IF RatLe(inputs.avg_visit_duration, Zero)
        THEN results.return_factor = Zero
        ELSE RatMul(results.return_factor, inputs.avg_visit_duration)
                 = inputs.operating_hours

C8_Witness ==
    /\ Returned
    /\ inputs.avg_visit_duration = R(-1)
    /\ inputs.operating_hours = R(8)
    /\ results.return_factor = Zero

ArealExample(inp) ==
    /\ inp.object_type = "areal"
    /\ inp.area_sq_m = R(1000)
    /\ inp.area_per_visitor = R(10)
    /\ inp.operating_hours = R(8)
    /\ inp.avg_visit_duration = R(2)
    /\ inp.time_unit_days = R(30)

\* C9: for an areal object base capacity is (area_sq_m / area_per_visitor) *
\* Rf * time_unit_days, and 0 when area_sq_m is None or 0 or area_per_visitor
\* <= 0; the example (1000, 10, 8, 2, 30) gives Rf = 4 and base 12000.
C9_BaseCapacityAreal ==
    (Returned /\ inputs.object_type = "areal") =>
        /\ IF IsNone(inputs.area_sq_m) \/ inputs.area_sq_m = Zero
              \/ RatLe(inputs.area_per_visitor, Zero)
           THEN results.base_capacity = Zero
           ELSE RatMul(results.base_capacity, inputs.area_per_visitor)
                    = RatMul(RatMul(inputs.area_sq_m, results.return_factor),
                             inputs.time_unit_days)
        /\ ArealExample(inputs) =>
               /\ results.return_factor = R(4)
               /\ results.base_capacity = R(12000)

C9_Witness ==
    /\ Returned
    /\ ArealExample(inputs)
    /\ results.base_capacity = R(12000)

\* The segments of a list that the day_trip formula does not skip.
UsedSegments(segs) ==
    {i \in 1..Len(segs) :
        /\ RatLt(Zero, SegGet(segs[i], "optimal_distance_km", One))
        /\ RatLt(Zero, SegGet(segs[i], "travel_time_hours", One))}

DayTripTerm(segs, ts) ==
    [i \in 1..Len(segs) |->
        RatMul(RatDiv(SegGet(segs[i], "length_km", Zero),
                      SegGet(segs[i], "optimal_distance_km", One)),
               RatDiv(ts, SegGet(segs[i], "travel_time_hours", One)))]

DayTripCase ==
    /\ Returned
    /\ inputs.object_type = "linear"
    /\ inputs.tourism_type = "day_trip"
    /\ ~Falsy(inputs.route_segments)

\* C10: for a linear day_trip object with a non-empty segment list, base
\* capacity is (sum over the segments with optimal_distance_km > 0 and
\* travel_time_hours > 0 of (length/optimal_distance) * (operating_hours /
\* travel_time)) * avg_group_size * (time_unit_days / number of all segments);
\* one segment {5, 5, 2} with 8 hours, groups of 3 and 30 days gives 360.
C10_BaseCapacityDayTrip ==
    DayTripCase =>
        LET segs == SegmentItems(inputs)
            sum == SumOver(DayTripTerm(segs, inputs.operating_hours),
                           UsedSegments(segs))
        IN  /\ results.base_capacity
                 = RatMul(RatMul(sum, inputs.avg_group_size),
                          RatDiv(inputs.time_unit_days, R(Len(segs))))
            /\ (/\ segs = <<SegExample>>
                /\ inputs.operating_hours = R(8)
                /\ inputs.avg_group_size = R(3)
                /\ inputs.time_unit_days = R(30))
               => results.base_capacity = R(360)

\* A day_trip route with one used and one skipped segment: 4 * 3 * (30 / 2).
C10_Witness ==
    /\ DayTripCase
    /\ SegmentItems(inputs) = <<SegExample, SegZeroDistance>>
    /\ results.base_capacity = R(180)

\* gp_i of every segment: 1 + avg_speed_kmh * (operating_hours -
\* travel_time_hours) / optimal_distance_km, or 0 for a segment whose
\* optimal_distance_km or travel_time_hours is not positive.
GroupsPerDay(segs, ts) ==
    [i \in 1..Len(segs) |->
        LET dgp == SegGet(segs[i], "optimal_distance_km", One)
            tdp == SegGet(segs[i], "travel_time_hours", One)
            vp == SegGet(segs[i], "avg_speed_kmh", R(3))
        IN  IF ~RatLt(Zero, dgp) \/ ~RatLt(Zero, tdp) THEN Zero
            ELSE RatAdd(One, RatDiv(RatMul(vp, RatSub(ts, tdp)), dgp))]

RouteCase(kind) ==
    /\ Returned
    /\ inputs.object_type = "linear"
    /\ inputs.tourism_type = kind
    /\ ~Falsy(inputs.route_segments)

\* C11: for a linear autonomous object with a non-empty segment list, base
\* capacity is (min over all segments of gp_i) * avg_group_size *
\* time_unit_days, not divided by the number of segments; with segments of
\* gp 5 and 3 the value used is 3.
C11_BaseCapacityAutonomous ==
    RouteCase("autonomous") =>
        LET segs == SegmentItems(inputs)
            gp == GroupsPerDay(segs, inputs.operating_hours)
        IN  /\ \E m \in 1..Len(segs) :
                  /\ \A j \in 1..Len(segs) : RatLe(gp[m], gp[j])
                  /\ results.base_capacity
                       = RatMul(RatMul(gp[m], inputs.avg_group_size),
                                inputs.time_unit_days)
            /\ (segs = <<SegGp5, SegGp3>> /\ inputs.operating_hours = R(8))
               => /\ gp = <<R(5), R(3)>>
                  /\ results.base_capacity
                       = RatMul(RatMul(R(3), inputs.avg_group_size),
                                inputs.time_unit_days)

\* The bottleneck example: min(5, 3) * 3 * 30.
C11_Witness ==
    /\ RouteCase("autonomous")
    /\ SegmentItems(inputs) = <<SegGp5, SegGp3>>
    /\ results.base_capacity = R(270)

\* C12: for a linear multi_day object with a non-empty segment list, base
\* capacity is (sum over all segments of gp_i) * avg_group_size *
\* (time_unit_days / number of segments), gp_i being 0 for a segment whose
\* optimal_distance_km <= 0 or travel_time_hours <= 0.
C12_BaseCapacityMultiDay ==
    RouteCase("multi_day") =>
        LET segs == SegmentItems(inputs)
            gp == GroupsPerDay(segs, inputs.operating_hours)
            sum == SumOver(gp, 1..Len(segs))
        IN  /\ results.base_capacity
                 = RatMul(RatMul(sum, inputs.avg_group_size),
                          RatDiv(inputs.time_unit_days, R(Len(segs))))
            /\ \A i \in 1..Len(segs) :
                  (\/ RatLe(SegGet(segs[i], "optimal_distance_km", One), Zero)
                   \/ RatLe(SegGet(segs[i], "travel_time_hours", One), Zero))
                  => calculate_max_groups_per_day(segs[i],
                                                  inputs.operating_hours) = Zero

\* Two segments with gp 23/5 and 0: (23/5) * 3 * (30 / 2).
C12_Witness ==
    /\ RouteCase("multi_day")
    /\ SegmentItems(inputs) = <<SegExample, SegZeroDistance>>
    /\ results.base_capacity = R(207)

RouteKinds == {"day_trip", "multi_day", "autonomous"}

\* C13: for a linear object of kind day_trip, multi_day or autonomous, base
\* capacity is 0 whenever route_segments is None or an empty list, and then
\* potential_capacity and pdre_capacity are 0 as well.
C13_NoSegmentsNoCapacity ==
    (/\ Returned
     /\ inputs.object_type = "linear"
     /\ inputs.tourism_type \in RouteKinds
     /\ (inputs.route_segments.none \/ inputs.route_segments.items = <<>>))
    => /\ results.base_capacity = Zero
       /\ results.potential_capacity = Zero
       /\ results.pdre_capacity = Zero

\* A day_trip route with an empty segment list and non-zero factors.
C13_Witness ==
    /\ Returned
    /\ inputs.object_type = "linear"
    /\ inputs.tourism_type = "day_trip"
    /\ inputs.route_segments = ListOf(<<>>)
    /\ inputs.correction_factors = ListOf(<<PyFloat(Q(3, 2))>>)
    /\ inputs.management_factor = Q(4, 5)
    /\ results.pdre_capacity = Zero

\* The product of the numbers of a factor list, 1 for the empty list.
RECURSIVE ProductOf(_)
ProductOf(fs) ==
    IF fs = <<>> THEN One ELSE RatMul(Head(fs).num, ProductOf(Tail(fs)))

\* C15: in every result of calculate_for_object, potential_capacity is
\* base_capacity times the product of all correction factors (an empty or
\* absent list leaves base_capacity unchanged) and pdre_capacity is
\* potential_capacity times management_factor.
C15_PotentialAndPdre ==
    Returned =>
        /\ results.potential_capacity
             = RatMul(results.base_capacity, ProductOf(FactorItems(inputs)))
        /\ (inputs.correction_factors.none \/ FactorItems(inputs) = <<>>)
           => results.potential_capacity = results.base_capacity
        /\ results.pdre_capacity
             = RatMul(results.potential_capacity, inputs.management_factor)

\* The areal example with factors 1/2 and 3/2 and management factor 4/5:
\* 12000 * 3/4 = 9000 and 9000 * 4/5 = 7200.
C15_Witness ==
    /\ Returned
    /\ ArealExample(inputs)
    /\ FactorItems(inputs) = <<PyFloat(Q(1, 2)), PyFloat(Q(3, 2))>>
    /\ inputs.management_factor = Q(4, 5)
    /\ results.potential_capacity = R(9000)
    /\ results.pdre_capacity = R(7200)

\* The segments whose length and divisors are all well formed.
WellFormedSegments(segs) ==
    {i \in 1..Len(segs) :
        /\ RatLe(Zero, SegGet(segs[i], "length_km", Zero))
        /\ RatLt(Zero, SegGet(segs[i], "optimal_distance_km", One))
        /\ RatLt(Zero, SegGet(segs[i], "travel_time_hours", One))}

\* C16: calculate_for_object returns a result for every combination of
\* numeric inputs, and a malformed value (negative length, zero or negative
\* divisor) makes the affected capacity term 0: a non-positive
\* avg_visit_duration gives return factor 0, a non-positive area_per_visitor
\* gives base capacity 0, and a day_trip segment with a negative length or a
\* non-positive optimal_distance_km or travel_time_hours contributes 0.
C16_MalformedDegradesToZero ==
    results # NoResults =>
        /\ results.exc = "none"
        /\ RatLe(inputs.avg_visit_duration, Zero)
           => results.return_factor = Zero
        /\ (inputs.object_type = "areal"
            /\ RatLe(inputs.area_per_visitor, Zero))
           => results.base_capacity = Zero
        /\ RouteCase("day_trip") =>
               LET segs == SegmentItems(inputs)
                   sum == SumOver(DayTripTerm(segs, inputs.operating_hours),
                                  WellFormedSegments(segs))
               IN  results.base_capacity
                     = RatMul(RatMul(sum, inputs.avg_group_size),
                              RatDiv(inputs.time_unit_days, R(Len(segs))))
\* C22: no capacity formula is applied to an object whose object_type is
\* "point": calculate_for_object gives it base_capacity 0, hence
\* potential_capacity 0 and pdre_capacity 0, whatever its tourism_type and
\* route_segments are.
C22_PointHasNoCapacity ==
    (Returned /\ inputs.object_type = "point")
    => /\ results.base_capacity = Zero
       /\ results.potential_capacity = Zero
       /\ results.pdre_capacity = Zero

-----------------------------------------------------------------------------
(* Properties of calculate_potential_capacity on floats, checked under      *)
(* SpecLaw.                                                                 *)

\* C14: for any base and any factors f1, f2,
\* calculate_potential_capacity(base, [f1, f2]) equals
\* calculate_potential_capacity(calculate_potential_capacity(base, [f1]), [f2]).
C14_ProductLaw == law.done => law.direct = law.nested

\* The unit roundoff u = 2^(-MantissaBits) and the bound (1 + u)^2 - 1 on
\* the relative error of two successive roundings.
UnitRoundoff == Q(1, Pow2(MantissaBits))
TwoRoundings ==
    RatAdd(RatMul(R(2), UnitRoundoff), RatMul(UnitRoundoff, UnitRoundoff))

RatAbs(x) == Q(Abs(x[1]), x[2])

WithinTwoRoundings(x, exact) ==
    RatLe(RatAbs(RatSub(x, exact)), RatMul(TwoRoundings, RatAbs(exact)))

\* C14 (amended): the two values agree up to floating-point rounding: each
\* is the exact product base * f1 * f2 after two roundings, so each lies
\* within the relative error (1 + u)^2 - 1 of it; they are not always equal.
C14_ProductLawRounded ==
    law.done =>
        LET exact == RatMul(RatMul(law.base, law.f1), law.f2)
        IN  /\ WithinTwoRoundings(law.direct, exact)
            /\ WithinTwoRoundings(law.nested, exact)

\* Arguments for which the two evaluation orders round differently.
C14_Witness ==
    /\ law.done
    /\ law.direct # law.nested
    /\ law.f1 # One /\ law.f2 # One


-----------------------------------------------------------------------------
(* Properties of calculate_for_protected_area and of the recalculate view, *)
(* checked under Spec.                                                     *)

AreaCallDone == pc = "done" /\ req \in DOMAIN areas

\* C3: for a protected area that exists, calculate_for_protected_area runs
\* to completion whatever the stored values of its objects are, and returns
\* one result record for every active object of the area.
C3_NeverAborts ==
    AreaCallDone =>
        /\ outcome = "ok"
        /\ Len(object_results) = Cardinality(ActiveObjects(req))

\* The numeric values of a bag, in the bag's order.
NumericBagValues(bag) ==
    LET F[i \in 0..Len(bag)] ==
            IF i = 0 THEN <<>>
            ELSE IF bag[i].val.kind = "list" THEN F[i - 1]
            ELSE Append(F[i - 1], bag[i].val)
    IN  F[Len(bag)]

\* The row from which the most recent CalculationInputs was built.
LastSourceRow ==
    IF pc = "responded" THEN objects[req]
    ELSE IF outcome = "TypeError" THEN order[idx + 1].row
    ELSE order[idx].row

\* C4: the CalculationInputs a caller builds carry as correction_factors
\* exactly the numeric values of the stored bag, in order, and as
\* route_segments exactly the stored segment list; the route_segments entry
\* is never among the correction factors.
C4_InputsFromBag ==
    last_inputs # NoInputs =>
        LET bag == LastSourceRow.correction_factors
        IN  /\ last_inputs.correction_factors.items = NumericBagValues(bag)
            /\ last_inputs.route_segments.items = BagRouteSegments(bag)
            /\ \A i \in 1..Len(last_inputs.correction_factors.items) :
                   last_inputs.correction_factors.items[i].kind # "list"

\* The PDRE of each active object of an area, computed on its own.
IndependentPdre(id) ==
    [o \in ActiveObjects(id) |->
        calculate_for_object(BuildInputsArea(objects[o])).pdre_capacity]

C6_NotFound ==
    [][(pc = "idle" /\ pc' \in {"loop", "done"} /\ req' \notin DOMAIN areas)
       => (/\ pc' = "done"
           /\ outcome' = "ValueError"
           /\ objects' = objects
           /\ areas' = areas)]_vars

C6_Witness ==
    /\ pc = "done"
    /\ req \notin DOMAIN areas
    /\ outcome = "ValueError"

\* C7: for an area with no active tourism objects the call returns
\* total_pdre = 0 and an empty object_results list, and calculate_total_pdre
\* of an empty list is 0.
C7_EmptyArea ==
    /\ (AreaCallDone /\ outcome = "ok" /\ ActiveObjects(req) = {}) =>
           (total_pdre = Zero /\ object_results = <<>>)
    /\ calculate_total_pdre(<<>>) = Zero

\* The area holds only an inactive object.
C7_Witness ==
    /\ AreaCallDone
    /\ outcome = "ok"
    /\ ActiveObjects(req) = {}
    /\ \E o \in DOMAIN objects : objects[o].protected_area = req
    /\ areas[req].pdre_value = Zero

\* The objects the call is about: the active objects of the requested area.
ActiveIn(id) ==
    {o \in DOMAIN objects :
        objects[o].protected_area = id /\ objects[o].is_active = TRUE}

\* C17: after a calculate_for_protected_area call that returns normally,
\* every active object of the area stores exactly the return_factor,
\* base_capacity, potential_capacity and pdre_capacity reported for it in
\* object_results, the area's stored pdre_value equals the returned
\* total_pdre, and the area's calculation_method is "methodology_1809".
C17_StoredEqualsReported ==
    (AreaCallDone /\ outcome = "ok") =>
        /\ \A o \in ActiveIn(req) :
              \E i \in 1..Len(object_results) :
                  /\ object_results[i].object_id = o
                  /\ objects[o].return_factor = object_results[i].return_factor
                  /\ objects[o].base_capacity = object_results[i].base_capacity
                  /\ objects[o].potential_capacity
                       = object_results[i].potential_capacity
                  /\ objects[o].pdre_capacity = object_results[i].pdre_capacity
        /\ areas[req].pdre_value = total_pdre
        /\ areas[req].calculation_method = "methodology_1809"

\* A finished run over two active objects whose PDRE differs from the
\* potential capacity.
C17_Witness ==
    /\ AreaCallDone
    /\ outcome = "ok"
    /\ Cardinality(ActiveIn(req)) = 2
    /\ \A o \in ActiveIn(req) :
          /\ objects[o].pdre_capacity # objects[o].potential_capacity
          /\ RatLt(Zero, objects[o].pdre_capacity)
    /\ RatLt(Zero, areas[req].pdre_value)

\* A step of calculate_for_protected_area (not of the recalculate view).
AreaCallStep ==
    \/ pc = "idle" /\ pc' \in {"loop", "done"}
    \/ pc = "loop"

C19_PureReduction ==
    [][AreaCallStep => (objects' = objects /\ areas' = areas)]_vars

\* C19 (amended): calculate_for_protected_area itself saves the rows it
\* computed: a step changes at most the row of the active object being
\* processed, which then holds the four computed values, and the row of
\* the requested area, which then holds the total and the method label;
\* every other TourismObject and ProtectedArea row is left as it was.
C19_WritesOwnRows ==
    [][AreaCallStep =>
          /\ \A o \in DOMAIN objects :
                objects'[o] # objects[o] =>
                    /\ pc = "loop"
                    /\ o \in ActiveIn(req)
                    /\ o = order[idx + 1].id
                    /\ objects'[o].pdre_capacity
                         = object_results'[idx'].pdre_capacity
          /\ \A a \in DOMAIN areas :
                areas'[a] # areas[a] =>
                    /\ a = req
                    /\ outcome' = "ok"
                    /\ areas'[a].pdre_value = total_pdre
      ]_vars

\* The run has written an object row and the area row.
C19_Witness ==
    /\ AreaCallDone
    /\ outcome = "ok"
    /\ \E o \in ActiveIn(req) : ~IsNone(objects[o].pdre_capacity)
    /\ ~IsNone(areas[req].pdre_value)
    /\ \E a \in DOMAIN areas : a # req /\ IsNone(areas[a].pdre_value)

-----------------------------------------------------------------------------
(* Properties of concurrent area calculations, checked under SpecConc.     *)

\* One whole calculate_for_protected_area call executed alone on the tables
\* db, iterating the active objects in the order ord: the tables it leaves
\* and what it returns.
RECURSIVE AloneFrom(_, _, _, _, _)
AloneFrom(db, id, ord, i, total) ==
    IF i > Len(ord)
    THEN [db |-> [db EXCEPT !.areas[id] =
                     [@ EXCEPT !.pdre_value = total,
                               !.calculation_method = "methodology_1809"]],
          outcome |-> "ok", total_pdre |-> total]
    ELSE LET row == db.objects[ord[i]]
             res == calculate_for_object(BuildInputsArea(row))
         IN  IF res.exc = "TypeError"
             THEN [db |-> db, outcome |-> "TypeError", total_pdre |-> NoneVal]
             ELSE AloneFrom([db EXCEPT !.objects[ord[i]] = SavedRow(row, res)],
                            id, ord, i + 1, RatAdd(total, res.pdre_capacity))

ActiveOf(db, id) ==
    {o \in DOMAIN db.objects :
        db.objects[o].protected_area = id /\ db.objects[o].is_active = TRUE}

\* What a finished run hands back: the total of a normal return, nothing
\* after an exception.
Returned_total(r) ==
    IF runs[r].outcome = "ok" THEN runs[r].total_pdre ELSE NoneVal

BothRunsDone == \A r \in RunIds : runs[r].pc = "done"

\* The tables and returns of the two runs equal those of the call a
\* executed alone and then the call b executed alone.
EqualsOneAfterTheOther(a, b) ==
    \E oa \in Orderings(ActiveOf(db0, RunRequest[a])),
       ob \in Orderings(ActiveOf(db0, RunRequest[b])) :
        LET first == AloneFrom(db0, RunRequest[a], oa, 1, Zero)
            second == AloneFrom(first.db, RunRequest[b], ob, 1, Zero)
        IN  /\ objects = second.db.objects
            /\ areas = second.db.areas
            /\ runs[a].outcome = first.outcome
            /\ runs[b].outcome = second.outcome
            /\ Returned_total(a) = first.total_pdre
            /\ Returned_total(b) = second.total_pdre

\* C20: for every interleaving of the reads and writes of two concurrent
\* calculate_for_protected_area runs on different areas, the final stored
\* state of every object and of both areas, and both returned totals, equal
\* those of running the two calls one after the other, in either order.
C20_DifferentAreasIndependent ==
    BothRunsDone => (EqualsOneAfterTheOther(1, 2) /\ EqualsOneAfterTheOther(2, 1))

\* Both runs returned normally, each having computed and saved an object of
\* its own area.
C20_Witness ==
    /\ BothRunsDone
    /\ \A r \in RunIds :
          /\ runs[r].outcome = "ok"
          /\ Len(runs[r].object_results) = 1
          /\ RatLt(Zero, areas[RunRequest[r]].pdre_value)

-----------------------------------------------------------------------------
(* Termination, checked under SpecLive.                                    *)

\* The value the stepwise segment loop returns is the value of the formula.
StepwiseAgrees == segloop.pc = "done" => results = calculate_for_object(inputs)

\* C21: every calculation terminates: the segment loop of
\* calculate_for_object never goes past the number of route segments and
\* ends, and the object loop of calculate_for_protected_area never goes past
\* the number of active objects read and ends.
C21_Terminates ==
    /\ [](segloop.i <= Len(SegmentItems(inputs)))
    /\ [](idx <= Len(order))
    /\ (segloop.pc = "loop") ~> (segloop.pc = "done" /\ results # NoResults)
    /\ (pc = "loop") ~> (pc = "done")

\* A route formula that has gone through two segments and returned.
C21_Witness ==
    /\ segloop.pc = "done"
    /\ segloop.i = 2
    /\ SegmentItems(inputs) = <<SegZeroDistance, SegGp3>>
    /\ results.exc = "none"

-----------------------------------------------------------------------------
(* Properties of the area run next to row updates, checked under SpecEdit. *)

StoredPdre(o) ==
    IF IsNone(objects[o].pdre_capacity) THEN Zero ELSE objects[o].pdre_capacity

\* The sum of the stored pdre_capacity of the active objects of area a, a
\* value never stored counting as 0.
StoredPdreSum(a) ==
    SumOver([o \in DOMAIN objects |-> StoredPdre(o)], ActiveIn(a))

NoRequestInProgress == pc = "idle" /\ view.pc = "idle"

\* C23: whenever no calculation is in progress, every area that has been
\* calculated at least once stores as pdre_value the sum of the stored
\* pdre_capacity of its active objects, whatever sequence of area runs,
\* recalculations, activations, deactivations and edits came before.
C23_AreaTotalIsSumOfStored ==
    NoRequestInProgress =>
        \A a \in DOMAIN areas :
            areas[a].calculation_method # "none"
                => areas[a].pdre_value = StoredPdreSum(a)

\* C24: once the runs and the update have finished, the input field that
\* the last update wrote still holds the value it wrote: no run has written
\* an input value it read earlier over it.
C24_RunWritesOnlyComputedFields ==
    (NoRequestInProgress /\ edits # <<>>) =>
        LET e == edits[Len(edits)]
        IN  Edited(objects[e.id], e.kind) = objects[e.id]

ComputedFields(row) ==
    <<row.return_factor, row.base_capacity, row.potential_capacity,
      row.pdre_capacity>>

-----------------------------------------------------------------------------
(* The recalculate view against the area run, checked under Spec.          *)

RecalculateStep(o) == pc = "idle" /\ pc' = "responded" /\ req' = o

\* C28: what the recalculate view stores for an object is what the area run
\* stores for the same row: the four values computed from the inputs the
\* area run builds, and nothing when the engine raises.
C28_RecalculateAgreesWithAreaRun ==
    [][\A o \in ObjectIds :
          RecalculateStep(o) =>
              LET res == calculate_for_object(BuildInputsArea(objects[o]))
              IN  IF res.exc = "TypeError"
                  THEN objects' = objects
                  ELSE objects'[o] = SavedRow(objects[o], res)]_vars

\* The view has answered for an object and stored a positive capacity.
C28_Witness ==
    /\ pc = "responded"
    /\ outcome = "ok"
    /\ req \in DOMAIN objects
    /\ RatLt(Zero, StoredPdre(req))

-----------------------------------------------------------------------------
(* Idempotence of the area run, checked under SpecRepeat.                  *)

\* The run that has just finished follows a returned run on the same area
\* with no change of a row in between.
SecondRunDone == pc = "done" /\ outcome = "ok" /\ prev.area = req

\* C29 (as stated): a second run on the same area, with no change in
\* between, returns the same total_pdre and the same object_results as the
\* first and leaves the same computed fields stored.
C29_Idempotent ==
    SecondRunDone =>
        /\ total_pdre = prev.total
        /\ object_results = prev.records
        /\ \A o \in DOMAIN objects :
               ComputedFields(objects[o]) = ComputedFields(prev.rows[o])

\* C29 (amended): the second run returns the same total and the same
\* records, in the order in which the database returned the rows this time,
\* and leaves the same computed fields stored.
C29_SameUpToOrder ==
    SecondRunDone =>
        /\ total_pdre = prev.total
        /\ {object_results[i] : i \in 1..Len(object_results)}
             = {prev.records[i] : i \in 1..Len(prev.records)}
        /\ Len(object_results) = Len(prev.records)
        /\ \A o \in DOMAIN objects :
               ComputedFields(objects[o]) = ComputedFields(prev.rows[o])

\* A second run over two objects has finished and reports them in the other
\* order than the first.
C29_Witness ==
    /\ SecondRunDone
    /\ Len(object_results) = 2
    /\ object_results # prev.records
    /\ RatLt(Zero, total_pdre)

-----------------------------------------------------------------------------
(* Properties of the calculate_pdre_for_area task, checked under SpecTask. *)

TaskEnded == task.pc \in {"returned", "raised"}
TaskRecord == calc_results[task.record]

\* C25: every run of the task ends by returning, has created one
\* CalculationResult row, and leaves that row completed (with the total the
\* area stores, success returned) or failed (with an error message, failure
\* returned).
C25_OneRecordPerRun ==
    TaskEnded =>
        /\ task.pc = "returned"
        /\ task.record \in DOMAIN calc_results
        /\ \/ /\ TaskRecord.calculation_status = "completed"
              /\ TaskRecord.total_pdre = areas[task.area].pdre_value
              /\ task.outcome = "success"
           \/ /\ TaskRecord.calculation_status = "failed"
              /\ TaskRecord.error_message # "none"
              /\ task.outcome = "failure"

TaskFailed == task.pc = "returned" /\ task.outcome = "failure"

CompletedRecords ==
    {j \in DOMAIN calc_results :
        calc_results[j].calculation_status = "completed"}

====
